---- MODULE Spec2Model ----
(***************************************************************************)
(* StressNet (short vegetation) training script:                           *)
(*   src/stressnet/train_short_vegetation.py                               *)
(*                                                                         *)
(* h5totf is modelled statement group by statement group as a state        *)
(* machine (pc names the next group to run); kge is modelled as an         *)
(* operator over extended fixed-point numbers.  pandas / tf.data calls are *)
(* modelled by what they do to the table or dataset they are applied to.   *)
(*                                                                         *)
(* A table (one HDF file) is a record  [idx |-> set of time labels,        *)
(*                                      val |-> [site -> [label -> cell]]] *)
(* A cell is a record [nan |-> BOOLEAN, v |-> Int].                        *)
(* A joined row is [site, t, x, y]: x the 12 feature values, y the target; *)
(* site and t record where the row came from (the program keeps only the   *)
(* values; the origin is carried along to state the properties).           *)
(***************************************************************************)
EXTENDS Integers, Sequences, FiniteSets, TLC

\* ---------------------------------------------------------------- bounds
MaxRows == 3        \* sites x time steps of the input tables
MaxCorpus == 50     \* corpus rows in the split-only specification
MaxVec == 3         \* vector length in the loss-only specification
KgeScale == 1000    \* fixed-point resolution of the loss model

\* ------------------------------------------------------- program constants
InpKeys == <<"ate", "ateanm", "co2", "co2anm", "ssh", "sshanm",
             "swi", "swianm", "vod", "vodanm", "vpd", "vpdanm">>
TarKey == "str"
NumFeat == Len(InpKeys)
TarCol == NumFeat + 1
Sentinels == {-9999, -999}
MainShufle == TRUE
MainBatchn == 100
MainTrnper == 85

\* ------------------------------------------------------------------ cells
Num(v) == [nan |-> FALSE, v |-> v]
NaN == [nan |-> TRUE, v |-> 0]

\* Numbers of the loss are fixed-point (value times KgeScale) and extended:
\* [k |-> "num", v |-> scaled value], [k |-> "inf", v |-> sign], [k |-> "nan"].
FNum(v) == [k |-> "num", v |-> v]
FInf(sg) == [k |-> "inf", v |-> sg]
FNaN == [k |-> "nan", v |-> 0]

RECURSIVE SetToSortedSeq(_)
SetToSortedSeq(S) ==
    IF S = {} THEN <<>>
    ELSE LET m == CHOOSE a \in S : \A b \in S : a <= b
         IN  <<m>> \o SetToSortedSeq(S \ {m})

RECURSIVE Flatten(_)
Flatten(ss) == IF ss = <<>> THEN <<>> ELSE Head(ss) \o Flatten(Tail(ss))

Permute(s) ==
    {[k \in 1..Len(s) |-> s[f[k]]] : f \in Permutations(1..Len(s))}

\* ------------------------------------------------------------------ state
VARIABLES
    files,      \* the 13 HDF tables: 1..12 the features (InpKeys), 13 the target
    sitreq,     \* the site list
    shufle, batchn, trnper,
    pc,         \* next statement group of h5totf / kge
    inpdat, tardat,
    sitidx,     \* position of the site loop
    datlst, datfin, tarval, datmin, datmax,
    fullda, trnsiz, retn01, retn02,
    err,        \* the exception that ended the run, "" if none
    trace,      \* the stages run so far
    actual, predct, loss

vars == <<files, sitreq, shufle, batchn, trnper, pc, inpdat, tardat, sitidx,
          datlst, datfin, tarval, datmin, datmax, fullda, trnsiz, retn01,
          retn02, err, trace, actual, predct, loss>>

pipeVars == <<files, sitreq, shufle, batchn, trnper, inpdat, tardat, sitidx,
              datlst, datfin, tarval, datmin, datmax, fullda, trnsiz, retn01,
              retn02, err, trace>>

NSites == Len(sitreq)

\* ----------------------------------------------------------- input tables
DefFeat(c, s, t) == 1 + ((c + s + 2 * t) % 3)
DefTar(s, t) == (s + t) % 2
DefCell(c, s, t) == IF c = TarCol THEN Num(DefTar(s, t)) ELSE Num(DefFeat(c, s, t))

\* a table of nS sites and labels 1..nT, complete
FullTable(c, nS, nT) ==
    [idx |-> 1..nT,
     val |-> [s \in 1..nS |-> [t \in 1..nT |-> DefCell(c, s, t)]]]

\* the same with cell x written at the places W of table col
CellTables(nS, nT, col, x, W) ==
    [c \in 1..TarCol |->
        [idx |-> 1..nT,
         val |-> [s \in 1..nS |-> [t \in 1..nT |->
                    IF c = col /\ <<s, t>> \in W THEN x ELSE DefCell(c, s, t)]]]]

\* the same with the labels J missing from table col
GapTables(nS, nT, col, J) ==
    [c \in 1..TarCol |->
        LET I == IF c = col THEN (1..nT) \ J ELSE 1..nT
        IN  [idx |-> I,
             val |-> [s \in 1..nS |-> [t \in I |-> DefCell(c, s, t)]]]]

BadCells == {Num(-9999), Num(-999), NaN}
HighCells == {Num(3)}

Shapes == {sh \in (0..MaxRows) \X (0..MaxRows) : sh[1] * sh[2] <= MaxRows}

TrnPers == {-5, 0, 50, 85, 100, 150}
BatchNs == {1, 2, 100}

Unstarted ==
    /\ pc = "load"
    /\ inpdat = <<>> /\ tardat = <<>> /\ sitidx = 0
    /\ datlst = <<>> /\ datfin = <<>> /\ tarval = <<>>
    /\ datmin = <<>> /\ datmax = <<>>
    /\ fullda = <<>> /\ trnsiz = 0 /\ retn01 = <<>> /\ retn02 = <<>>
    /\ err = "" /\ trace = <<>>
    /\ actual = <<>> /\ predct = <<>> /\ loss = FNaN

\* main()'s call (lines 71-77) on tables with missing or out-of-range values
InitRich ==
    /\ \E sh \in Shapes :
        /\ sitreq = [s \in 1..sh[1] |-> s]
        /\ \/ files = [c \in 1..TarCol |-> FullTable(c, sh[1], sh[2])]
           \/ \E col \in 1..TarCol :
              \E x \in BadCells \cup (IF col = TarCol THEN HighCells ELSE {}) :
              \E W \in (SUBSET ((1..sh[1]) \X (1..sh[2]))) \ {{}} :
                 files = CellTables(sh[1], sh[2], col, x, W)
           \/ \E col \in 1..TarCol :
              \E J \in (SUBSET (1..sh[2])) \ {{}} :
                 /\ sh[1] > 0
                 /\ files = GapTables(sh[1], sh[2], col, J)
    /\ shufle = MainShufle /\ batchn = MainBatchn /\ trnper = MainTrnper
    /\ Unstarted

\* any call of h5totf on complete tables
InitParams ==
    /\ \E sh \in Shapes :
        /\ sitreq = [s \in 1..sh[1] |-> s]
        /\ files = [c \in 1..TarCol |-> FullTable(c, sh[1], sh[2])]
    /\ shufle \in BOOLEAN /\ batchn \in BatchNs /\ trnper \in TrnPers
    /\ Unstarted

Init == InitRich \/ InitParams


\* ------------------------------------------------------------ h5totf: load
\* variant: the clamp is left out
ClampSkipped(cell) == cell

\* lines 146-151: tmptar[tmptar > 1] = 1.0  (NaN > 1 is False)
Clamp(cell) == IF ~cell.nan /\ cell.v > 1 THEN Num(1) ELSE cell

ClampTable(tbl) ==
    [idx |-> tbl.idx,
     val |-> [s \in DOMAIN tbl.val |-> [t \in tbl.idx |-> Clamp(tbl.val[s][t])]]]

Load ==
    /\ pc = "load"
    /\ inpdat' = [c \in 1..NumFeat |-> files[c]]
    /\ tardat' = ClampTable(files[TarCol])
    /\ sitidx' = 1
    /\ pc' = "site"
    /\ UNCHANGED <<files, sitreq, shufle, batchn, trnper, datlst, datfin, tarval,
                   datmin, datmax, fullda, trnsiz, retn01, retn02, err, trace,
                   actual, predct, loss>>

\* ------------------------------------------------------- h5totf: site loop
\* column c of the per-site frame before concat: the site's series of table c
\* (lines 161-169; the series is named after its table, so the columns of the
\* per-site frames line up across sites)
SiteSeries(c, i) ==
    LET tbl == IF c = TarCol THEN tardat ELSE inpdat[c]
    IN  [idx |-> tbl.idx, val |-> tbl.val[i]]

\* line 170: pd.concat(lsttmp, axis = 1) joins on the union of the labels
ConcatCols(i) ==
    LET labels == UNION {SiteSeries(c, i).idx : c \in 1..TarCol}
    IN  [t \in labels |-> [c \in 1..TarCol |->
            IF t \in SiteSeries(c, i).idx THEN SiteSeries(c, i).val[t] ELSE NaN]]


\* variant: only the first sentinel is replaced
ReplaceFirstSentinelOnly(cell) ==
    IF ~cell.nan /\ cell.v = -9999 THEN NaN ELSE cell

\* lines 171-172
ReplaceSentinel(cell) ==
    IF ~cell.nan /\ cell.v \in Sentinels THEN NaN ELSE cell


\* variant: the target column is left out of the completeness test
KeepRowFeaturesOnly(cells) == \A c \in 1..NumFeat : ~cells[c].nan

\* line 173: dropna(axis = 0, how = "any")
KeepRow(cells) == \A c \in 1..TarCol : ~cells[c].nan

SiteFrame(i) ==
    LET frame == ConcatCols(i)
        repl == [t \in DOMAIN frame |->
                    [c \in 1..TarCol |-> ReplaceSentinel(frame[t][c])]]
        kept == SetToSortedSeq({t \in DOMAIN repl : KeepRow(repl[t])})
    IN  [k \in 1..Len(kept) |->
            [site |-> i, t |-> kept[k],
             x |-> [c \in 1..NumFeat |-> repl[kept[k]][c].v],
             y |-> repl[kept[k]][TarCol].v]]

JoinSite ==
    /\ pc = "site"
    /\ sitidx <= NSites
    /\ datlst' = Append(datlst, SiteFrame(sitreq[sitidx]))
    /\ sitidx' = sitidx + 1
    /\ UNCHANGED <<files, sitreq, shufle, batchn, trnper, pc, inpdat, tardat,
                   datfin, tarval, datmin, datmax, fullda, trnsiz, retn01,
                   retn02, err, trace, actual, predct, loss>>

\* line 176: del dattmp (unbound when the loop body never ran)
DelDattmp ==
    /\ pc = "site"
    /\ sitidx > NSites
    /\ IF NSites = 0
       THEN pc' = "raised" /\ err' = "UnboundLocalError"
       ELSE pc' = "concat" /\ err' = err
    /\ UNCHANGED <<files, sitreq, shufle, batchn, trnper, inpdat, tardat, sitidx,
                   datlst, datfin, tarval, datmin, datmax, fullda, trnsiz,
                   retn01, retn02, trace, actual, predct, loss>>

\* lines 179-185: concat(ignore_index), dropna, reset_index
\* (the per-site frames hold no NaN any more, so the second dropna keeps all)
Concat ==
    /\ pc = "concat"
    /\ datfin' = Flatten(datlst)
    /\ pc' = "shuffle1"
    /\ trace' = Append(trace, "join")
    /\ UNCHANGED <<files, sitreq, shufle, batchn, trnper, inpdat, tardat, sitidx,
                   datlst, tarval, datmin, datmax, fullda, trnsiz, retn01,
                   retn02, err, actual, predct, loss>>

\* --------------------------------------------- h5totf: shuffle, normalise
\* lines 188-190: datfin.sample(frac = 1) is any permutation of the rows
Shuffle1 ==
    /\ pc = "shuffle1"
    /\ IF shufle
       THEN datfin' \in Permute(datfin) /\ trace' = Append(trace, "shuffle1")
       ELSE datfin' = datfin /\ trace' = trace
    /\ pc' = "normalize"
    /\ UNCHANGED <<files, sitreq, shufle, batchn, trnper, inpdat, tardat, sitidx,
                   datlst, tarval, datmin, datmax, fullda, trnsiz, retn01,
                   retn02, err, actual, predct, loss>>

\* DataFrame.quantile(k/20) of one column, linear interpolation, times 20;
\* NaN for a column without rows
Quantile20(vals, k) ==
    LET n == Len(vals)
        sorted == SortSeq(vals, LAMBDA a, b : a < b)
        lo == (k * (n - 1)) \div 20
        fr == (k * (n - 1)) % 20
    IN  IF n = 0 THEN NaN
        ELSE IF fr = 0 THEN Num(20 * sorted[lo + 1])
        ELSE Num(20 * sorted[lo + 1] + fr * (sorted[lo + 2] - sorted[lo + 1]))

Column(rows, c) == [k \in 1..Len(rows) |-> rows[k].x[c]]

\* lines 198-199
QuantileVec(rows, k) == [c \in 1..NumFeat |-> Quantile20(Column(rows, c), k)]

\* line 200: a feature value over its column's datmax, as the fraction n/d
\* (datmax is held times 20)
Scaled(v, mx) == [n |-> 20 * v, d |-> mx.v, nan |-> mx.nan]

ScaleRow(row, mx) ==
    [site |-> row.site, t |-> row.t,
     x |-> [c \in 1..NumFeat |-> Scaled(row.x[c], mx[c])]]

\* variant: the target column is taken in the order the rows were joined in
PopTargetJoinOrder(rows) ==
    SortSeq([k \in 1..Len(rows) |->
                [site |-> rows[k].site, t |-> rows[k].t, y |-> rows[k].y]],
            LAMBDA a, b : a.site < b.site \/ (a.site = b.site /\ a.t < b.t))

\* line 195: datfin.pop(...)
PopTarget(rows) ==
    [k \in 1..Len(rows) |-> [site |-> rows[k].site, t |-> rows[k].t, y |-> rows[k].y]]

\* variant: the statistics are taken over the training part only
StatRowsTrainPart(rows) ==
    LET m == (trnper * Len(rows)) \div 100
    IN  SubSeq(rows, 1, IF m < 0 THEN 0 ELSE IF m > Len(rows) THEN Len(rows) ELSE m)

\* the rows the statistics of lines 198-199 are taken over: the whole frame
StatRows(rows) == rows

Normalize ==
    /\ pc = "normalize"
    /\ tarval' = PopTarget(datfin)
    /\ datmin' = QuantileVec(StatRows(datfin), 1)
    /\ datmax' = QuantileVec(StatRows(datfin), 19)
    /\ datfin' = [k \in 1..Len(datfin) |-> ScaleRow(datfin[k], datmax')]
    /\ pc' = "convert"
    /\ trace' = Append(trace, "normalize")
    /\ UNCHANGED <<files, sitreq, shufle, batchn, trnper, inpdat, tardat, sitidx,
                   datlst, fullda, trnsiz, retn01, retn02, err, actual, predct,
                   loss>>

\* lines 206-207: from_tensor_slices pairs the two arrays by position
Slices(feat, tar) == [k \in 1..Len(feat) |-> [x |-> feat[k], y |-> tar[k]]]

Convert ==
    /\ pc = "convert"
    /\ fullda' = Slices(datfin, tarval)
    /\ pc' = "split"
    /\ UNCHANGED <<files, sitreq, shufle, batchn, trnper, inpdat, tardat, sitidx,
                   datlst, datfin, tarval, datmin, datmax, trnsiz, retn01,
                   retn02, err, trace, actual, predct, loss>>

\* ----------------------------------------------------------- h5totf: split
RECURSIVE Pow2(_)
Pow2(k) == IF k <= 0 THEN 1 ELSE 2 * Pow2(k - 1)

RECURSIVE Pow2Mod100(_)
Pow2Mod100(k) == IF k <= 0 THEN 1 ELSE (2 * Pow2Mod100(k - 1)) % 100

RECURSIVE Log2Floor(_)
Log2Floor(q) == IF q < 2 THEN 0 ELSE 1 + Log2Floor(q \div 2)

RECURSIVE ShiftUp(_, _)
ShiftUp(P, m) == IF P * Pow2(m) >= 100 THEN m ELSE ShiftUp(P, m + 1)

\* binary exponent of the double P/100, P > 0
Expo(P) == IF P >= 100 THEN Log2Floor(P \div 100) ELSE 0 - ShiftUp(P, 0)

\* int((P/100) * N) for P, N >= 0 in IEEE-754 double arithmetic: P/100 is
\* rounded to 53 bits (r is what the rounding cuts off, in units of
\* 1/(100 * 2^s)), the product with N is rounded again and int() truncates.
\* The result is the exact quotient q unless P*N is a multiple of 100, P/100
\* was rounded down, and N times that error exceeds half the spacing of the
\* doubles below q.
TrnSizAbs(P, N) ==
    LET q == (P * N) \div 100
        f == (P * N) % 100
        a == Expo(P)
        r == ((P % 100) * Pow2Mod100(52 - a)) % 100
        t == Log2Floor(q)
        lhs == (IF q = Pow2(t) THEN 4 ELSE 2) * r * N * Pow2(a)
        rhs == 100 * Pow2(t) * Pow2(0 - a)
    IN  IF P = 0 \/ N = 0 THEN 0
        ELSE IF f # 0 \/ q = 0 THEN q
        ELSE IF r = 0 \/ r > 50 THEN q
        ELSE IF lhs > rhs THEN q - 1 ELSE q

\* line 210: trnsiz = int((trnper/100) * len(datfin)); int() truncates to zero
TrnSiz(p, N) == IF p >= 0 THEN TrnSizAbs(p, N) ELSE 0 - TrnSizAbs(0 - p, N)

\* tf.data take / skip: a negative count takes, or skips, everything
Take(ds, n) ==
    IF n < 0 \/ n >= Len(ds) THEN ds ELSE SubSeq(ds, 1, n)

\* variant: skip drops one element too many
SkipOneMore(ds, n) ==
    IF n < 0 \/ n + 1 >= Len(ds) THEN <<>> ELSE SubSeq(ds, n + 2, Len(ds))

Skip(ds, n) ==
    IF n < 0 \/ n >= Len(ds) THEN <<>> ELSE SubSeq(ds, n + 1, Len(ds))

Split ==
    /\ pc = "split"
    /\ trnsiz' = TrnSiz(trnper, Len(datfin))
    /\ retn01' = Take(fullda, trnsiz')
    /\ retn02' = Skip(fullda, trnsiz')
    /\ pc' = "shuffle2"
    /\ trace' = Append(trace, "split")
    /\ UNCHANGED <<files, sitreq, shufle, batchn, trnper, inpdat, tardat, sitidx,
                   datlst, datfin, tarval, datmin, datmax, fullda, err, actual,
                   predct, loss>>

\* lines 216-219: Dataset.shuffle(n) with n at least the dataset's size is any
\* permutation of it; a buffer size below 1 is refused (InvalidArgumentError)
Shuffle2 ==
    /\ pc = "shuffle2"
    /\ IF ~shufle
       THEN /\ pc' = "batch"
            /\ UNCHANGED <<retn01, retn02, err, trace>>
       ELSE IF trnsiz <= 0
       THEN /\ pc' = "raised" /\ err' = "InvalidArgumentError"
            /\ UNCHANGED <<retn01, retn02, trace>>
       ELSE IF Len(datfin) - trnsiz <= 0
       THEN /\ pc' = "raised" /\ err' = "InvalidArgumentError"
            /\ retn01' \in Permute(retn01)
            /\ UNCHANGED <<retn02, trace>>
       ELSE /\ pc' = "batch"
            /\ retn01' \in Permute(retn01)
            /\ retn02' \in Permute(retn02)
            /\ trace' = Append(trace, "shuffle2")
            /\ err' = err
    /\ UNCHANGED <<files, sitreq, shufle, batchn, trnper, inpdat, tardat, sitidx,
                   datlst, datfin, tarval, datmin, datmax, fullda, trnsiz,
                   actual, predct, loss>>

\* lines 221-222: Dataset.batch(batchn), the last batch may be shorter
RECURSIVE Batch(_, _)
Batch(ds, b) ==
    IF ds = <<>> THEN <<>>
    ELSE IF Len(ds) <= b THEN <<ds>>
    ELSE <<SubSeq(ds, 1, b)>> \o Batch(SubSeq(ds, b + 1, Len(ds)), b)

\* lines 221-226
BatchReturn ==
    /\ pc = "batch"
    /\ retn01' = Batch(retn01, batchn)
    /\ retn02' = Batch(retn02, batchn)
    /\ pc' = "done"
    /\ trace' = Append(trace, "batch")
    /\ UNCHANGED <<files, sitreq, shufle, batchn, trnper, inpdat, tardat, sitidx,
                   datlst, datfin, tarval, datmin, datmax, fullda, trnsiz, err,
                   actual, predct, loss>>

Next ==
    \/ Load
    \/ JoinSite
    \/ DelDattmp
    \/ Concat
    \/ Shuffle1
    \/ Normalize
    \/ Convert
    \/ Split
    \/ Shuffle2
    \/ BatchReturn

Spec == Init /\ [][Next]_vars

\* ------------------------------------------- the split on larger corpora
\* h5totf about to run line 210 on one site of n complete time steps,
\* shuffling off, for every train percentage of the documented range
InitSplit ==
    \E n \in 0..MaxCorpus :
        /\ sitreq = <<1>>
        /\ files = [c \in 1..TarCol |-> FullTable(c, 1, n)]
        /\ shufle = FALSE /\ batchn = MainBatchn /\ trnper \in 0..100
        /\ pc = "split"
        /\ inpdat = [c \in 1..NumFeat |-> files[c]]
        /\ tardat = ClampTable(files[TarCol])
        /\ sitidx = 2
        /\ datlst = <<[k \in 1..n |->
                        [site |-> 1, t |-> k,
                         x |-> [c \in 1..NumFeat |-> DefFeat(c, 1, k)],
                         y |-> DefTar(1, k)]]>>
        /\ tarval = PopTarget(datlst[1])
        /\ datmin = QuantileVec(datlst[1], 1)
        /\ datmax = QuantileVec(datlst[1], 19)
        /\ datfin = [k \in 1..n |-> ScaleRow(datlst[1][k], datmax)]
        /\ fullda = Slices(datfin, tarval)
        /\ trnsiz = 0 /\ retn01 = <<>> /\ retn02 = <<>>
        /\ err = "" /\ trace = <<"join", "normalize">>
        /\ actual = <<>> /\ predct = <<>> /\ loss = FNaN

NextSplit == Split \/ Shuffle2 \/ BatchReturn

SpecSplit == InitSplit /\ [][NextSplit]_vars

\* -------------------------------------------------------------------- kge
Sign(v) == IF v > 0 THEN 1 ELSE IF v < 0 THEN 0 - 1 ELSE 0
Abs(v) == IF v < 0 THEN 0 - v ELSE v
\* division rounding towards zero
Quot(a, b) == Sign(a) * Sign(b) * (Abs(a) \div Abs(b))

RECURSIVE SqrtSearch(_, _, _)
SqrtSearch(n, lo, hi) ==
    IF lo >= hi THEN lo
    ELSE LET mid == (lo + hi + 1) \div 2
         IN  IF mid * mid <= n THEN SqrtSearch(n, mid, hi)
             ELSE SqrtSearch(n, lo, mid - 1)
ISqrt(n) == SqrtSearch(n, 0, 46340)

XAdd(a, b) ==
    IF a.k = "nan" \/ b.k = "nan" THEN FNaN
    ELSE IF a.k = "inf" /\ b.k = "inf" THEN (IF a.v = b.v THEN a ELSE FNaN)
    ELSE IF a.k = "inf" THEN a
    ELSE IF b.k = "inf" THEN b
    ELSE FNum(a.v + b.v)
XNeg(a) == IF a.k = "nan" THEN FNaN ELSE [k |-> a.k, v |-> 0 - a.v]
XSub(a, b) == XAdd(a, XNeg(b))
XMul(a, b) ==
    IF a.k = "nan" \/ b.k = "nan" THEN FNaN
    ELSE IF a.k = "inf" \/ b.k = "inf"
         THEN (IF a.v = 0 \/ b.v = 0 THEN FNaN ELSE FInf(Sign(a.v) * Sign(b.v)))
    ELSE FNum(Quot(a.v * b.v, KgeScale))
XDiv(a, b) ==
    IF a.k = "nan" \/ b.k = "nan" THEN FNaN
    ELSE IF a.k = "inf" THEN (IF b.k = "inf" THEN FNaN
                              ELSE FInf(IF b.v < 0 THEN 0 - a.v ELSE a.v))
    ELSE IF b.k = "inf" THEN FNum(0)
    ELSE IF b.v = 0 THEN (IF a.v = 0 THEN FNaN ELSE FInf(Sign(a.v)))
    ELSE FNum(Quot(a.v * KgeScale, b.v))
XSqrt(a) ==
    IF a.k = "nan" THEN FNaN
    ELSE IF a.k = "inf" THEN (IF a.v > 0 THEN a ELSE FNaN)
    ELSE IF a.v < 0 THEN FNaN
    ELSE FNum(ISqrt(a.v * KgeScale))
XSq(a) == XMul(a, a)
One == FNum(KgeScale)

RECURSIVE SumSeq(_)
SumSeq(xs) == IF xs = <<>> THEN 0 ELSE Head(xs) + SumSeq(Tail(xs))

\* tf.math.reduce_mean of a vector of scaled values
ReduceMean(xs) == Quot(SumSeq(xs), Len(xs))
Deviations(xs) == [i \in 1..Len(xs) |-> xs[i] - ReduceMean(xs)]
\* tf.math.reduce_std: the population standard deviation
ReduceStd(xs) ==
    LET d == Deviations(xs)
    IN  ISqrt(ReduceMean([i \in 1..Len(xs) |-> d[i] * d[i]]))

\* lines 252-273, on integer vectors of equal length
Kge(act, prd) ==
    LET a == [i \in 1..Len(act) |-> act[i] * KgeScale]
        p == [i \in 1..Len(prd) |-> prd[i] * KgeScale]
        acmean == ReduceMean(a)
        pdmean == ReduceMean(p)
        acmdev == Deviations(a)
        pdmdev == Deviations(p)
        cornum == FNum(ReduceMean([i \in 1..Len(a) |->
                                     Quot(acmdev[i] * pdmdev[i], KgeScale)]))
        corden == XMul(FNum(ReduceStd(acmdev)), FNum(ReduceStd(pdmdev)))
        corcof == XDiv(cornum, corden)
        cratio == XSq(XSub(corcof, One))
        stdrat == XDiv(FNum(ReduceStd(p)), FNum(ReduceStd(a)))
        vratio == XSq(XSub(stdrat, One))
        menrat == XDiv(FNum(pdmean), FNum(acmean))
        bratio == XSq(XSub(menrat, One))
        kgeval == XSub(One, XSqrt(XAdd(XAdd(cratio, vratio), bratio)))
    IN  XSub(One, kgeval)

KgeVals == {-1, 0, 1, 2}

InitKge ==
    /\ \E n \in 2..MaxVec :
        /\ actual \in [1..n -> KgeVals]
        /\ predct \in [1..n -> KgeVals]
    /\ loss = FNaN
    /\ pc = "kge"
    /\ sitreq = <<>>
    /\ files = [c \in 1..TarCol |-> FullTable(c, 0, 0)]
    /\ shufle = MainShufle /\ batchn = MainBatchn /\ trnper = MainTrnper
    /\ inpdat = <<>> /\ tardat = <<>> /\ sitidx = 0
    /\ datlst = <<>> /\ datfin = <<>> /\ tarval = <<>>
    /\ datmin = <<>> /\ datmax = <<>>
    /\ fullda = <<>> /\ trnsiz = 0 /\ retn01 = <<>> /\ retn02 = <<>>
    /\ err = "" /\ trace = <<>>

KgeCall ==
    /\ pc = "kge"
    /\ loss' = Kge(actual, predct)
    /\ pc' = "kge_ret"
    /\ UNCHANGED <<pipeVars, actual, predct>>

SpecKge == InitKge /\ [][KgeCall]_vars

\* ===================================================================
\* Properties.  They are stated against the input tables (files), not
\* against the intermediate frames of the pipeline.
\* ===================================================================
Sites == 1..NSites
Labels == UNION {files[c].idx : c \in 1..TarCol}
Present(c, s, t) == t \in files[c].idx /\ ~files[c].val[s][t].nan
HasSentinel(s, t) ==
    \E c \in 1..TarCol : Present(c, s, t) /\ files[c].val[s][t].v \in {-9999, -999}
IsComplete(s, t) ==
    \A c \in 1..TarCol : Present(c, s, t) /\ files[c].val[s][t].v \notin {-9999, -999}
CompleteSet == {o \in Sites \X Labels : IsComplete(o[1], o[2])}
NoHole(s) == \A c \in 1..TarCol : \A t \in Labels : Present(c, s, t)
Origins(rows) == {<<rows[k].site, rows[k].t>> : k \in 1..Len(rows)}
CorpusBuilt == trace # <<>>
SourceTarget(s, t) == files[TarCol].val[s][t].v
ExpectedTarget(s, t) == IF SourceTarget(s, t) > 1 THEN 1 ELSE SourceTarget(s, t)
\* the complete rows of the input tables, in site and time order
ExpectedCorpus ==
    LET cs == CompleteSet
        keys == SetToSortedSeq({o[1] * (MaxRows + 2) + o[2] : o \in cs})
    IN  [k \in 1..Len(keys) |->
            LET s == keys[k] \div (MaxRows + 2)
                t == keys[k] % (MaxRows + 2)
            IN  [site |-> s, t |-> t,
                 x |-> [c \in 1..NumFeat |-> files[c].val[s][t].v],
                 y |-> ExpectedTarget(s, t)]]
ExpectedQuantiles(k) ==
    LET corpus == ExpectedCorpus
    IN  [c \in 1..NumFeat |-> Quantile20([j \in 1..Len(corpus) |-> corpus[j].x[c]], k)]
ExpectedMax == ExpectedQuantiles(19)
ExpectedMin == ExpectedQuantiles(1)
\* the target column of the corpus, before and after line 195 took it out
CorpusTargets ==
    IF pc \in {"shuffle1", "normalize"}
    THEN [k \in 1..Len(datfin) |->
            [site |-> datfin[k].site, t |-> datfin[k].t, y |-> datfin[k].y]]
    ELSE tarval
\* the elements of a partition, batched or not
Elems(ds) == IF pc = "done" THEN Flatten(ds) ELSE ds
XOrigins(ds) == {<<ds[k].x.site, ds[k].x.t>> : k \in 1..Len(ds)}
Split_Made == pc \in {"shuffle2", "batch", "done"}
IsPrefix(a, b) == Len(a) <= Len(b) /\ a = SubSeq(b, 1, Len(a))
StageOrder ==
    IF shufle THEN <<"join", "shuffle1", "normalize", "split", "shuffle2", "batch">>
    ELSE <<"join", "normalize", "split", "batch">>

\* C1: once the corpus is joined, no row whose time step holds -9999.0 or
\* -999.0 in any of the 13 columns is in it; a site whose only defects are
\* sentinels contributes exactly its time steps without one (10 steps, 2 with
\* a sentinel: 8 rows).
C1_SentinelRowsAbsent ==
    /\ CorpusBuilt =>
          \A o \in Origins(datfin) : ~HasSentinel(o[1], o[2])
    /\ pc = "concat" =>
          \A s \in Sites :
             /\ \A k \in 1..Len(datlst[s]) : ~HasSentinel(s, datlst[s][k].t)
             /\ NoHole(s) =>
                   Len(datlst[s]) = Cardinality({t \in Labels : ~HasSentinel(s, t)})

C1_Witness ==
    /\ pc = "shuffle1"
    /\ \E s \in Sites : \E t1, t2, t3 \in Labels :
          /\ t1 # t2
          /\ HasSentinel(s, t1) /\ HasSentinel(s, t2)
          /\ <<s, t3>> \in Origins(datfin)
          /\ \E c \in 1..NumFeat : files[c].val[s][t1].v = -999

\* C2: the joined corpus (before shuffling) holds exactly the rows at which
\* all 13 columns are present and non-missing: its row count is the number of
\* such (site, time step) pairs summed over the sites, none is lost and no
\* incomplete row is kept.
C2_CorpusIsCompleteRows ==
    pc = "shuffle1" =>
        /\ Len(datfin) = Cardinality(CompleteSet)
        /\ Origins(datfin) = CompleteSet

C2_Witness ==
    /\ pc = "shuffle1"
    /\ \E c \in 1..TarCol : files[c].idx # Labels /\ files[c].idx # {}
    /\ Len(datfin) >= 1
    /\ Cardinality(Sites \X Labels) > Len(datfin)

\* C3: a target above 1.0 in the source is 1.0 in the corpus, a target at
\* most 1.0 that survives the filter is unchanged, so no target of the corpus
\* or of a returned partition exceeds 1.0.
C3_TargetClamped ==
    CorpusBuilt =>
        /\ \A k \in 1..Len(CorpusTargets) :
              LET r == CorpusTargets[k]
                  src == SourceTarget(r.site, r.t)
              IN  /\ src > 1 => r.y = 1
                  /\ src <= 1 => r.y = src
                  /\ r.y <= 1
        /\ LET trn == Elems(retn01)
               tst == Elems(retn02)
           IN  /\ \A k \in 1..Len(trn) : trn[k].y.y <= 1
               /\ \A k \in 1..Len(tst) : tst[k].y.y <= 1

C3_Witness ==
    /\ pc = "done"
    /\ \E k \in 1..Len(tarval) :
          SourceTarget(tarval[k].site, tarval[k].t) > 1
    /\ \E k \in 1..Len(tarval) :
          SourceTarget(tarval[k].site, tarval[k].t) < 1

\* C4: whenever h5totf has split, and when it returns, the train and the
\* validation partition are disjoint, their sizes add up to the corpus row
\* count and together they hold every corpus row exactly once, for every
\* train percentage, either shuffle flag, re-shuffled and batched or not.
C4_PartitionsCoverCorpus ==
    Split_Made =>
        LET trn == Elems(retn01)
            tst == Elems(retn02)
        IN  /\ Len(trn) + Len(tst) = Len(fullda)
            /\ Len(fullda) = Cardinality(CompleteSet)
            /\ XOrigins(trn) \cap XOrigins(tst) = {}
            /\ XOrigins(trn) \cup XOrigins(tst) = CompleteSet
            /\ Cardinality(XOrigins(trn)) = Len(trn)
            /\ Cardinality(XOrigins(tst)) = Len(tst)

C4_Witness ==
    /\ pc = "done" /\ shufle
    /\ Len(retn01) >= 2 /\ Len(retn02) >= 1
    /\ Flatten(retn01) # SubSeq(fullda, 1, trnsiz)
    /\ Len(fullda) = MaxRows

\* C5 (as claimed): for a train percentage p in 0..100 and a corpus of N
\* rows the train partition is the first floor(p*N/100) rows of the corpus in
\* its order at the split, the validation partition the rest.
C5_Claim ==
    (pc = "shuffle2" /\ trnper \in 0..100) =>
        LET k == (trnper * Len(fullda)) \div 100
        IN  /\ Len(retn01) = k
            /\ retn01 = SubSeq(fullda, 1, k)
            /\ retn02 = SubSeq(fullda, k + 1, Len(fullda))

\* C6: the stages run in the order join, shuffle1, normalize, split,
\* shuffle2, batch (the shuffles only when shuffling is on); the percentile
\* vectors, when computed and when returned, are those of the complete joined
\* corpus and exist before any partition does, and the split cuts the corpus
\* in the order the first shuffle left.
C6_StageOrder ==
    /\ IsPrefix(trace, StageOrder)
    /\ pc = "done" => trace = StageOrder
    /\ pc \in {"convert", "done"} =>
          /\ datmax = ExpectedMax /\ datmin = ExpectedMin
          /\ Origins(datfin) = CompleteSet
    /\ datmax = <<>> => (retn01 = <<>> /\ retn02 = <<>> /\ fullda = <<>>)
    /\ Split_Made =>
          /\ datmax # <<>>
          /\ [k \in 1..Len(fullda) |-> fullda[k].x] = datfin
          /\ XOrigins(Elems(retn01)) = XOrigins(Take(fullda, trnsiz))
          /\ XOrigins(Elems(retn02)) = XOrigins(Skip(fullda, trnsiz))

C6_Witness ==
    /\ pc = "done" /\ shufle
    /\ trace = StageOrder
    /\ Len(fullda) = MaxRows
    /\ Origins(datfin) # {} /\ datfin[1].site # 1
    /\ LET head == [k \in 1..trnsiz |->
                      [x |-> ExpectedCorpus[k].x]]
       IN  [c \in 1..NumFeat |-> Quantile20(Column(head, c), 19)] # datmax

\* C7 (as claimed): h5totf returns partitions only for a train percentage
\* within 0..100 that leaves neither partition empty.
C7_Claim ==
    pc = "done" =>
        /\ trnper \in 0..100
        /\ Flatten(retn01) # <<>>
        /\ Flatten(retn02) # <<>>

\* C8 (as claimed): h5totf never gets past the join with an empty corpus: it
\* returns no partitions and scale vectors for one.
C8_Claim ==
    pc = "done" => CompleteSet # {}

\* C9 (as claimed): for identical non-constant vectors the loss is about 0,
\* for negatively correlated vectors it is above 1.
Covariance(a, p) ==
    Len(a) * SumSeq([i \in 1..Len(a) |-> a[i] * p[i]]) - SumSeq(a) * SumSeq(p)
NonConstant(a) == \E i, j \in 1..Len(a) : a[i] # a[j]
C9_Claim ==
    pc = "kge_ret" =>
        /\ (actual = predct /\ NonConstant(actual)) =>
              (loss.k = "num" /\ Abs(loss.v) * 100 <= KgeScale)
        /\ Covariance(actual, predct) < 0 =>
              \/ loss.k = "num" /\ loss.v > KgeScale
              \/ loss = FInf(1)

\* C10: every element of a returned partition pairs the feature vector of
\* one corpus row, each value divided by its column's 95th percentile over the
\* whole corpus, with the target of that same row, which is not normalised.
IsRowPair(e, mx, cs) ==
    /\ e.x.site = e.y.site /\ e.x.t = e.y.t
    /\ <<e.x.site, e.x.t>> \in cs
    /\ \A c \in 1..NumFeat :
          e.x.x[c] = [n |-> 20 * files[c].val[e.x.site][e.x.t].v,
                      d |-> mx[c].v, nan |-> FALSE]
    /\ e.y.y = ExpectedTarget(e.y.site, e.y.t)
====
